---- MODULE Spec2Model ----
(***************************************************************************)
(* Model of streamlit/app.py: the boat-race prediction page.               *)
(*                                                                         *)
(* Text is modelled as a sequence of lexical tokens: every punctuation     *)
(* character, digit and line feed is a token of its own ("_", ".", "/",    *)
(* "-", "%", "0".."9", "\n"); a run of letters is one token, "txt" when    *)
(* the run is exactly txt and "w" otherwise.  Numbers are integers in      *)
(* hundredths unless stated otherwise.                                     *)
(***************************************************************************)
EXTENDS Integers, Sequences, FiniteSets, TLC

VARIABLES
    file_path,          \* extract_threshold_from_filename: the argument
    threshold_out,      \* extract_threshold_from_filename: what the call gave
    raw,                \* prepare_df: the argument, a raw table
    prepared,           \* prepare_df: what the call gave
    selected_venue,     \* st.session_state.selected_venue_id / _name, 0 for None
    selected_round,     \* st.session_state.selected_round, 0 for None
    df,                 \* st.session_state.df, <<>> for the empty frame
    artifacts,          \* the model files on disk: present or not, what each
                        \* booster declares and what it scores
    run,                \* what the last run of the script did from line 701 on
    last_fetch,         \* how the last press of the fetch button ended
    fetched_venue,      \* the venue the stored table was fetched for
    had_data            \* some fetch of the session found a race

functionVars == <<file_path, threshold_out, raw, prepared>>

sessionVars ==
    <<selected_venue, selected_round, df, artifacts, run, last_fetch,
      fetched_venue, had_data>>

vars == <<functionVars, sessionVars>>

(***************************************************************************)
(* Bounds of the model.                                                    *)
(***************************************************************************)
MaxNameLen == 6         \* longest artifact path, in tokens
MaxBadCells == 1        \* cells of a raw table that hold unparsable text
MaxRound == 1           \* the round buttons 1..MaxRound (of 12)
MaxDay == 1             \* the days of the month the date input can hold

(***************************************************************************)
(* Text helpers.                                                           *)
(***************************************************************************)
DigitChars == <<"0", "1", "2", "3", "4", "5", "6", "7", "8", "9">>

IsDigit(c) == \E d \in 1..10 : DigitChars[d] = c

DigitVal(c) == (CHOOSE d \in 1..10 : DigitChars[d] = c) - 1

RECURSIVE DigitsToNat(_)
DigitsToNat(s) ==
    IF s = <<>> THEN 0
    ELSE 10 * DigitsToNat(SubSeq(s, 1, Len(s) - 1)) + DigitVal(s[Len(s)])

AllDigits(s, a, b) == a <= b /\ \A p \in a..b : IsDigit(s[p])

\* A decimal number n / 10^k, in lowest decimal form (float equality).
RECURSIVE Normal(_)
Normal(x) ==
    IF x[2] > 0 /\ x[1] % 10 = 0 THEN Normal(<<x[1] \div 10, x[2] - 1>>) ELSE x

\* float("<int digits>.<fraction digits>")
ParseFloat(ip, fp) == Normal(<<DigitsToNat(ip \o fp), Len(fp)>>)

DefaultThreshold == Normal(<<5, 1>>)

(***************************************************************************)
(* extract_threshold_from_filename                                         *)
(***************************************************************************)
\* os.path.basename: what follows the last "/"
basename(p) ==
    LET slashes == {i \in 1..Len(p) : p[i] = "/"}
    IN  IF slashes = {} THEN p
        ELSE SubSeq(p, (CHOOSE i \in slashes : \A j \in slashes : j <= i) + 1, Len(p))

\* "$": the end of the text, or just before a line feed that ends it
AtDollar(s, p) == p = Len(s) + 1 \/ (p = Len(s) /\ s[p] = "\n")

\* the pattern with any extension in place of txt: r'_(\d+\.\d+)\.\w+$'
PatternAt_AnyExtension(s, i, j, k) ==
    /\ s[i] = "_"
    /\ AllDigits(s, i + 1, j - 1)
    /\ s[j] = "."
    /\ AllDigits(s, j + 1, k - 1)
    /\ s[k] = "."
    /\ k + 1 <= Len(s)
    /\ s[k + 1] \in {"txt", "w"}
    /\ AtDollar(s, k + 2)

\* r'_(\d+\.\d+)\.txt$' matched with "_" at i, the dots at j and k
PatternAt(s, i, j, k) ==
    /\ s[i] = "_"
    /\ AllDigits(s, i + 1, j - 1)
    /\ s[j] = "."
    /\ AllDigits(s, j + 1, k - 1)
    /\ s[k] = "."
    /\ k + 1 <= Len(s)
    /\ s[k + 1] = "txt"
    /\ AtDollar(s, k + 2)

\* re.search: the matches, of which the leftmost is taken
pattern_matches(s) ==
    UNION {UNION {{<<i, j, k>> : k \in {x \in (j + 1)..Len(s) : PatternAt(s, i, j, x)}} :
                    j \in {x \in (i + 1)..Len(s) : s[x] = "."}} :
             i \in {x \in 1..Len(s) : s[x] = "_"}}

extract_threshold_from_filename(p) ==
    LET filename == basename(p)
        found    == pattern_matches(filename)
    IN  IF found # {}
        THEN LET m == CHOOSE x \in found : \A y \in found : x[1] <= y[1]
             IN  [threshold |-> ParseFloat(SubSeq(filename, m[1] + 1, m[2] - 1),
                                           SubSeq(filename, m[2] + 1, m[3] - 1)),
                  warning   |-> FALSE]
        ELSE [threshold |-> DefaultThreshold, warning |-> TRUE]

(***************************************************************************)
(* Cell text of the raw table.  A cell is a sequence of one-character       *)
(* tokens: digits, ".", "-", "%", "/", " " and letters ("A", "B", "F",      *)
(* and "w" for any other character).                                        *)
(***************************************************************************)
\* the missing value (np.nan): an integer that no number of a table reaches
NaN == -999999999

RemoveToken(s, c) == LET Keep(x) == x # c IN SelectSeq(s, Keep)

\* str.strip
RECURSIVE strip(_)
strip(s) ==
    IF s = <<>> THEN s
    ELSE IF s[1] = " " THEN strip(Tail(s))
    ELSE IF s[Len(s)] = " " THEN strip(SubSeq(s, 1, Len(s) - 1))
    ELSE s

\* the text of a decimal number, in hundredths (two decimals are kept); NaN
\* for any other text
ParseDecimal(s) ==
    LET neg  == s # <<>> /\ s[1] = "-"
        body == IF neg THEN Tail(s) ELSE s
        dots == {i \in 1..Len(body) : body[i] = "."}
        d    == IF dots = {} THEN Len(body) + 1 ELSE CHOOSE i \in dots : TRUE
        ip   == SubSeq(body, 1, d - 1)
        fp   == SubSeq(body, d + 1, Len(body))
        f2   == SubSeq(fp \o <<"0", "0">>, 1, 2)
    IN  IF \/ Cardinality(dots) > 1
           \/ Len(ip) + Len(fp) = 0
           \/ \E i \in 1..Len(body) : ~IsDigit(body[i]) /\ body[i] # "."
        THEN NaN
        ELSE (IF neg THEN -1 ELSE 1) * (100 * DigitsToNat(ip) + DigitsToNat(f2))

\* pd.to_numeric(errors='coerce') of one cell
to_numeric(s) == ParseDecimal(strip(s))

fillna(x, v) == IF x = NaN THEN v ELSE x

\* .astype(str).str[:2].astype(float) of one cell: NaN here stands for the
\* ValueError that float() raises
age_to_float(s) ==
    ParseDecimal(strip(SubSeq(s, 1, IF Len(s) < 2 THEN Len(s) ELSE 2)))

\* .str.extract(r'(\d+)').fillna(0).astype(int) of one cell
extract_digits(s) ==
    LET ds == {i \in 1..Len(s) : IsDigit(s[i])}
        a  == CHOOSE i \in ds : \A j \in ds : i <= j
        b  == CHOOSE i \in a..Len(s) :
                 /\ \A j \in a..i : IsDigit(s[j])
                 /\ (i = Len(s) \/ ~IsDigit(s[i + 1]))
    IN  IF ds = {} THEN 0 ELSE 100 * DigitsToNat(SubSeq(s, a, b))

class_map(c) ==
    IF c = <<"A", "1">> THEN 400
    ELSE IF c = <<"A", "2">> THEN 300
    ELSE IF c = <<"B", "1">> THEN 200
    ELSE IF c = <<"B", "2">> THEN 100
    ELSE NaN

rate_columns ==
    {"win_national", "win_local", "place2_national", "place2_local",
     "place3_national", "place3_local", "motor_place2", "motor_place3",
     "boat_place2", "boat_place3"}

(***************************************************************************)
(* prepare_df: the scalar normalisation of one row and the final cleanup.   *)
(***************************************************************************)
\* lines 84-135, one row; the columns "name" and "L" are dropped
normalise_row(r) ==
    [age        |-> age_to_float(r.age),
     weight     |-> to_numeric(RemoveToken(r.weight, "/")),
     class      |-> r.class,
     F          |-> extract_digits(r.F),
     mean_st    |-> IF r.mean_st = <<"-">> THEN NaN ELSE to_numeric(r.mean_st),
     rates      |-> [c \in rate_columns |->
                        fillna(to_numeric(RemoveToken(RemoveToken(r.rates[c], "%"), " ")), 0)],
     motor_no   |-> fillna(to_numeric(r.motor_no), 0),
     boat_no    |-> fillna(to_numeric(r.boat_no), 0),
     course     |-> fillna(to_numeric(r.course), 0),
     day        |-> r.day,
     round      |-> r.round,
     exhibition |-> to_numeric(strip(r.exhibition)),
     tilt       |-> to_numeric(strip(r.tilt)),
     class_rank |-> fillna(class_map(r.class), 0)]

\* lines 199 and 225, then 245-252: what is still missing becomes 0, and a
\* column that still holds text is converted, text that is no number giving 0
final_cleanup(n) ==
    [age        |-> n.age,
     weight     |-> fillna(n.weight, 0),
     class      |-> fillna(to_numeric(n.class), 0),
     F          |-> n.F,
     mean_st    |-> fillna(n.mean_st, 0),
     rates      |-> n.rates,
     motor_no   |-> n.motor_no,
     boat_no    |-> n.boat_no,
     course     |-> n.course,
     day        |-> fillna(to_numeric(n.day), 0),
     round      |-> n.round,
     exhibition |-> fillna(n.exhibition, 0),
     tilt       |-> fillna(n.tilt, 0),
     class_rank |-> n.class_rank]

(***************************************************************************)
(* prepare_df: the derived features (lines 138-238).  A raw column holds    *)
(* hundredths; a derived column holds units, Scale of them to a hundredth,  *)
(* so that the halves, the means of six and the fifths of the code are      *)
(* whole numbers.  The rounding of floating point is not modelled; a        *)
(* quotient that is no whole number of units is cut to one.                *)
(***************************************************************************)
Scale == 12 * 100

\* the number 1, in units
One == 100 * Scale

\* the result of a division by zero (np.inf), and its negative
Inf == 2000000000

IsNumber(x) == x # NaN /\ x # Inf /\ x # -Inf

\* x / y of two floats, both in the same measure; the result in units
Quotient(x, y) ==
    IF x = NaN \/ y = NaN THEN NaN
    ELSE IF y = 0 THEN (IF x = 0 THEN NaN ELSE IF x > 0 THEN Inf ELSE -Inf)
    ELSE (x * One) \div y

\* x * y, x in units and y in hundredths; the result in units
Product(x, y) ==
    IF x = NaN \/ y = NaN THEN NaN
    ELSE IF ~IsNumber(x)
    THEN (IF y = 0 THEN NaN ELSE IF y > 0 THEN x ELSE -x)
    ELSE (x * y) \div 100

\* line 151: course_score, and 0.5 for any other lane
course_score(course) ==
    CASE course = 100 -> One
      [] course = 200 -> 80 * Scale
      [] course = 300 -> 60 * Scale
      [] course = 400 -> 40 * Scale
      [] course = 500 -> 20 * Scale
      [] course = 600 -> 0
      [] OTHER        -> 50 * Scale

\* lines 138-160, one row: n is the normalised row
scalar_features(n) ==
    LET win_total   == ((n.rates["win_national"] + n.rates["win_local"]) * Scale) \div 2
        motor_power == ((n.rates["motor_place2"] + n.rates["motor_place3"]) * Scale) \div 2
        boat_power  == ((n.rates["boat_place2"] + n.rates["boat_place3"]) * Scale) \div 2
        power_total == (motor_power + boat_power) \div 2
        st_plus     == IF n.mean_st = NaN THEN NaN ELSE n.mean_st + 1
    IN  [st_stability    |-> Quotient(100, st_plus),
         win_diff        |-> (n.rates["win_local"] - n.rates["win_national"]) * Scale,
         place2_diff     |-> (n.rates["place2_local"] - n.rates["place2_national"]) * Scale,
         place3_diff     |-> (n.rates["place3_local"] - n.rates["place3_national"]) * Scale,
         win_total       |-> win_total,
         place_stability |-> ((n.rates["place2_national"] + n.rates["place3_national"]) * Scale) \div 2,
         motor_power     |-> motor_power,
         boat_power      |-> boat_power,
         power_diff      |-> motor_power - boat_power,
         power_total     |-> power_total,
         inner_advantage |-> course_score(n.course),
         course_inverse  |-> fillna(Quotient(100, IF n.course = 0 THEN NaN ELSE n.course), 0),
         overall_score   |-> (win_total + power_total) \div 2,
         course_fit      |-> Product(course_score(n.course), n.rates["win_local"]),
         class_power     |-> Product(power_total, n.class_rank),
         st_win          |-> Product(Quotient(100, st_plus), n.rates["win_national"]),
         weight_st       |-> Quotient(n.weight, st_plus)]

\* line 164: the rows of the race of row i (same day and same round)
race_group(ns, i) ==
    {j \in 1..Len(ns) : ns[j].day = ns[i].day /\ ns[j].round = ns[i].round}

\* lines 216-219: the rows of the lane of row i
course_group(ns, i) == {j \in 1..Len(ns) : ns[j].course = ns[i].course}

RECURSIVE SetSum(_, _)
SetSum(v, S) ==
    IF S = {} THEN 0
    ELSE LET j == CHOOSE x \in S : TRUE IN v[j] + SetSum(v, S \ {j})

\* the rows of G whose value is not missing: pandas leaves the others out
Valid(v, G) == {j \in G : v[j] # NaN}

group_mean(v, G) ==
    IF Valid(v, G) = {} THEN NaN
    ELSE SetSum(v, Valid(v, G)) \div Cardinality(Valid(v, G))

group_max(v, G) ==
    IF Valid(v, G) = {} THEN NaN
    ELSE v[CHOOSE j \in Valid(v, G) : \A k \in Valid(v, G) : v[k] <= v[j]]

group_min(v, G) ==
    IF Valid(v, G) = {} THEN NaN
    ELSE v[CHOOSE j \in Valid(v, G) : \A k \in Valid(v, G) : v[j] <= v[k]]

\* the values of G in ascending order
RECURSIVE SortedValues(_, _)
SortedValues(v, G) ==
    IF G = {} THEN <<>>
    ELSE LET j == CHOOSE x \in G : \A k \in G : v[x] <= v[k]
         IN  <<v[j]>> \o SortedValues(v, G \ {j})

\* a rank that gives tied values the highest place of the tie
rank_max(x, sorted) ==
    CHOOSE k \in 1..Len(sorted) :
        sorted[k] = x /\ \A m \in (k + 1)..Len(sorted) : sorted[m] # x

\* rank(method='min'): the first place of x in the ascending order
rank_min(x, sorted) ==
    CHOOSE k \in 1..Len(sorted) :
        sorted[k] = x /\ \A m \in 1..(k - 1) : sorted[m] # x

\* lines 166-168: a column of agg_features, in units
agg_column(ns, ss, f) ==
    CASE f = "win_national" -> [j \in 1..Len(ns) |-> ns[j].rates["win_national"] * Scale]
      [] f = "win_local"    -> [j \in 1..Len(ns) |-> ns[j].rates["win_local"] * Scale]
      [] f = "motor_power"  -> [j \in 1..Len(ns) |-> ss[j].motor_power]
      [] f = "boat_power"   -> [j \in 1..Len(ns) |-> ss[j].boat_power]
      [] f = "overall_score" -> [j \in 1..Len(ns) |-> ss[j].overall_score]
      [] f = "class_rank"   -> [j \in 1..Len(ns) |-> ns[j].class_rank * Scale]
      [] f = "mean_st"      -> [j \in 1..Len(ns) |->
                                   IF ns[j].mean_st = NaN THEN NaN
                                   ELSE ns[j].mean_st * Scale]

\* the column with every missing value made 99.99
filled_column_High(ns, f) ==
    CASE f = "exhibition" -> [j \in 1..Len(ns) |-> fillna(ns[j].exhibition, 9999) * Scale]
      [] f = "tilt"       -> [j \in 1..Len(ns) |-> fillna(ns[j].tilt, 9999) * Scale]

\* the column with every missing value made 0 (lines 199 and 225), in units
filled_column(ns, f) ==
    CASE f = "exhibition" -> [j \in 1..Len(ns) |-> fillna(ns[j].exhibition, 0) * Scale]
      [] f = "tilt"       -> [j \in 1..Len(ns) |-> fillna(ns[j].tilt, 0) * Scale]

\* lines 184-189 and 193: (mean * 6 - self) / 5
\* the mean of the whole race, the row itself included
opponent_mean_WithSelf(mean, self) == mean

opponent_mean(mean, self) ==
    IF mean = NaN \/ self = NaN THEN NaN
    ELSE (mean * 6 - self) \div 5

\* lines 173-181: mean, max and min of a column over the race of row i
race_stats(ns, ss, i) ==
    LET G  == race_group(ns, i)
        wn == agg_column(ns, ss, "win_national")
        wl == agg_column(ns, ss, "win_local")
        mp == agg_column(ns, ss, "motor_power")
        bp == agg_column(ns, ss, "boat_power")
        os == agg_column(ns, ss, "overall_score")
        cr == agg_column(ns, ss, "class_rank")
        st == agg_column(ns, ss, "mean_st")
    IN  [win_national_mean_all  |-> group_mean(wn, G),
         win_national_max_all   |-> group_max(wn, G),
         win_national_min_all   |-> group_min(wn, G),
         win_local_mean_all     |-> group_mean(wl, G),
         win_local_max_all      |-> group_max(wl, G),
         win_local_min_all      |-> group_min(wl, G),
         motor_power_mean_all   |-> group_mean(mp, G),
         motor_power_max_all    |-> group_max(mp, G),
         motor_power_min_all    |-> group_min(mp, G),
         boat_power_mean_all    |-> group_mean(bp, G),
         boat_power_max_all     |-> group_max(bp, G),
         boat_power_min_all     |-> group_min(bp, G),
         overall_score_mean_all |-> group_mean(os, G),
         overall_score_max_all  |-> group_max(os, G),
         overall_score_min_all  |-> group_min(os, G),
         class_rank_mean_all    |-> group_mean(cr, G),
         class_rank_max_all     |-> group_max(cr, G),
         class_rank_min_all     |-> group_min(cr, G),
         mean_st_mean_all       |-> group_mean(st, G),
         mean_st_max_all        |-> group_max(st, G),
         mean_st_min_all        |-> group_min(st, G)]

\* line 181: the statistics of its race merged into every row; they are
\* computed once for each race, for its first row
RECURSIVE merged_stats(_, _, _)
merged_stats(ns, ss, k) ==
    IF k = 0 THEN <<>>
    ELSE LET before == merged_stats(ns, ss, k - 1)
             first  == CHOOSE j \in race_group(ns, k) :
                           \A m \in race_group(ns, k) : j <= m
         IN  before \o <<IF first < k THEN before[first]
                         ELSE race_stats(ns, ss, k)>>

\* a flag that is also 1 for a class rank equal to the opponent mean
class_advantage_AtLeast(rank, opponents) == IF rank >= opponents THEN One ELSE 0

\* line 194: (class rank > opponent mean class rank).astype(int)
class_advantage(rank, opponents) == IF rank > opponents THEN One ELSE 0

\* lines 184-194: the opponent means, the deltas and the class advantage of
\* a row, n and s its normalised row and scalar features, st the statistics
\* of its race
opponent_features(n, s, st) ==
    LET wn == n.rates["win_national"] * Scale
        cr == n.class_rank * Scale
    IN  [win_national_opp_mean  |-> opponent_mean(st.win_national_mean_all, wn),
         win_national_delta     |-> wn - opponent_mean(st.win_national_mean_all, wn),
         motor_power_opp_mean   |-> opponent_mean(st.motor_power_mean_all, s.motor_power),
         motor_power_delta      |->
             s.motor_power - opponent_mean(st.motor_power_mean_all, s.motor_power),
         overall_score_opp_mean |->
             opponent_mean(st.overall_score_mean_all, s.overall_score),
         overall_score_delta    |->
             s.overall_score - opponent_mean(st.overall_score_mean_all, s.overall_score),
         opp_mean_class_rank    |-> opponent_mean(st.class_rank_mean_all, cr),
         class_advantage        |->
             class_advantage(cr, opponent_mean(st.class_rank_mean_all, cr))]

\* lines 198-221: the starting exhibition within the race and the lane
exhibition_features(ns, i) ==
    LET G == race_group(ns, i)
        e == filled_column(ns, "exhibition")
    IN  [exhibition_mean_diff        |-> e[i] - group_mean(e, G),
         exhibition_rank             |-> One * rank_min(e[i], SortedValues(e, G)),
         exhibition_fastest_diff     |-> e[i] - group_min(e, G),
         exhibition_course_mean_diff |-> e[i] - group_mean(e, course_group(ns, i)),
         course_exhibition           |-> Product(e[i], ns[i].course)]

\* lines 224-238: the tilt and the interactions
tilt_features(ns, i) ==
    LET e == filled_column(ns, "exhibition")
        t == filled_column(ns, "tilt")
    IN  [tilt_plus       |-> IF t[i] > 0 THEN One ELSE 0,
         tilt_cat        |-> CASE t[i] = (-50) * Scale -> -One
                               [] t[i] = 0            -> 0
                               [] t[i] = 50 * Scale   -> One
                               [] OTHER               -> NaN,
         exhibition_tilt |-> Product(e[i], fillna(ns[i].tilt, 0)),
         tilt_course     |-> Product(t[i], ns[i].course)]

\* the derived columns left as they are
fill_none(r) == r

\* line 245: df.fillna(0) on the derived columns
fill_all(r) == [c \in DOMAIN r |-> fillna(r[c], 0)]

\* the columns of the returned table, in their order
PreparedColumns ==
    <<"age", "weight", "class", "F", "mean_st",
      "win_national", "place2_national", "place3_national",
      "win_local", "place2_local", "place3_local",
      "motor_no", "motor_place2", "motor_place3",
      "boat_no", "boat_place2", "boat_place3",
      "course", "day", "round", "exhibition", "tilt",
      "class_rank", "st_stability", "win_diff", "place2_diff", "place3_diff",
      "win_total", "place_stability", "motor_power", "boat_power",
      "power_diff", "power_total", "inner_advantage", "course_inverse",
      "overall_score", "course_fit", "class_power", "st_win", "weight_st",
      "win_national_mean_all", "win_national_max_all", "win_national_min_all",
      "win_local_mean_all", "win_local_max_all", "win_local_min_all",
      "motor_power_mean_all", "motor_power_max_all", "motor_power_min_all",
      "boat_power_mean_all", "boat_power_max_all", "boat_power_min_all",
      "overall_score_mean_all", "overall_score_max_all", "overall_score_min_all",
      "class_rank_mean_all", "class_rank_max_all", "class_rank_min_all",
      "mean_st_mean_all", "mean_st_max_all", "mean_st_min_all",
      "win_national_opp_mean", "win_national_delta",
      "motor_power_opp_mean", "motor_power_delta",
      "overall_score_opp_mean", "overall_score_delta",
      "opp_mean_class_rank", "class_advantage",
      "exhibition_mean_diff", "exhibition_rank", "exhibition_fastest_diff",
      "exhibition_course_mean_diff", "course_exhibition",
      "tilt_plus", "tilt_cat", "exhibition_tilt", "tilt_course">>

\* prepare_df: raised, when a cell of the age column is no number (line 98)
\* lines 84-135 on every row
RECURSIVE normalised(_)
normalised(frame) ==
    IF frame = <<>> THEN <<>>
    ELSE <<normalise_row(Head(frame))>> \o normalised(Tail(frame))

\* lines 138-160 on every row
RECURSIVE scalars(_)
scalars(ns) ==
    IF ns = <<>> THEN <<>>
    ELSE <<scalar_features(Head(ns))>> \o scalars(Tail(ns))

\* lines 164-252: the columns of the race and the final cleanup; a row of the
\* returned table holds every column of PreparedColumns
returned_rows(ns, ss, sts) ==
    [i \in 1..Len(ns) |->
        final_cleanup(ns[i])
            @@ fill_all(ss[i])
            @@ fill_all(sts[i])
            @@ fill_all(opponent_features(ns[i], ss[i], sts[i]))
            @@ fill_all(exhibition_features(ns, i))
            @@ fill_all(tilt_features(ns, i))]

with_stats(ns, ss) == returned_rows(ns, ss, merged_stats(ns, ss, Len(ns)))

derive_table(ns) ==
    [raised  |-> FALSE,
     columns |-> PreparedColumns,
     rows    |-> with_stats(ns, scalars(ns))]

prepare_df(frame) ==
    IF \E i \in 1..Len(frame) : age_to_float(frame[i].age) = NaN
    THEN [raised |-> TRUE, columns |-> <<>>, rows |-> <<>>]
    ELSE derive_table(normalised(frame))

(***************************************************************************)
(* Raw tables: the six rows of one race as the fetch handler builds them    *)
(* (lines 594-684), of which at most MaxBadCells cells hold text that is   *)
(* no number.                                                              *)
(***************************************************************************)
Lanes == 1..6

LaneText(l) == <<DigitChars[l + 1]>>

GoodRow(l, d, r) ==
    [name       |-> <<"w">>,
     age        |-> <<"4", DigitChars[l + 1], "w">>,
     weight     |-> <<"5", "2", ".", "0">>,
     class      |-> IF l <= 2 THEN <<"A", "1">> ELSE <<"B", "1">>,
     F          |-> <<"F", "0">>,
     L          |-> <<"w", "0">>,
     mean_st    |-> <<"0", ".", "1", DigitChars[l + 1]>>,
     rates      |-> [c \in rate_columns |-> <<DigitChars[l + 1], ".", "5", "0">>],
     motor_no   |-> <<"1", DigitChars[l + 1]>>,
     boat_no    |-> <<"2", DigitChars[l + 1]>>,
     course     |-> LaneText(l),
     day        |-> <<"0", DigitChars[d + 1]>>,
     round      |-> r,
     exhibition |-> <<"6", ".", "8", DigitChars[l + 1]>>,
     tilt       |-> <<"-", "0", ".", "5">>]

GoodTable(d, r) == [l \in Lanes |-> GoodRow(l, d, r)]

\* the raw numeric fields of a row that hold text
TextFields ==
    {"age", "weight", "class", "F", "mean_st", "motor_no", "boat_no", "course",
     "exhibition", "tilt"} \cup rate_columns

\* text that is no number: empty, a lone "-", a letter, a blank
BadTexts == {<<>>, <<"-">>, <<"w">>, <<" ">>}

\* the cells that are spoiled: those of the first and of the last lane
Cells == {1, 6} \X TextFields

\* row r with the text of field f replaced by t
SetField(r, f, t) ==
    IF f \in rate_columns
    THEN [r EXCEPT !.rates = [r.rates EXCEPT ![f] = t]]
    ELSE CASE f = "age"        -> [r EXCEPT !.age = t]
           [] f = "weight"     -> [r EXCEPT !.weight = t]
           [] f = "class"      -> [r EXCEPT !.class = t]
           [] f = "F"          -> [r EXCEPT !.F = t]
           [] f = "mean_st"    -> [r EXCEPT !.mean_st = t]
           [] f = "motor_no"   -> [r EXCEPT !.motor_no = t]
           [] f = "boat_no"    -> [r EXCEPT !.boat_no = t]
           [] f = "course"     -> [r EXCEPT !.course = t]
           [] f = "exhibition" -> [r EXCEPT !.exhibition = t]
           [] f = "tilt"       -> [r EXCEPT !.tilt = t]

\* the text of field f of row r
Field(r, f) ==
    IF f \in rate_columns THEN r.rates[f]
    ELSE CASE f = "age"        -> r.age
           [] f = "weight"     -> r.weight
           [] f = "class"      -> r.class
           [] f = "F"          -> r.F
           [] f = "mean_st"    -> r.mean_st
           [] f = "motor_no"   -> r.motor_no
           [] f = "boat_no"    -> r.boat_no
           [] f = "course"     -> r.course
           [] f = "exhibition" -> r.exhibition
           [] f = "tilt"       -> r.tilt

RECURSIVE Spoil(_, _)
Spoil(t, cells) ==
    IF cells = <<>> THEN t
    ELSE LET l == cells[1][1][1]
             f == cells[1][1][2]
             x == cells[1][2]
         IN  Spoil([t EXCEPT ![l] = SetField(t[l], f, x)], Tail(cells))

\* at most n cells, each with the text that spoils it
SpoiledCells(n) == UNION {[1..k -> Cells \X BadTexts] : k \in 0..n}

\* table t with the texts of column f replaced, one text for each lane
SetColumn(t, f, texts) == [l \in Lanes |-> SetField(t[l], f, texts[l])]

\* starting exhibition times as the before-information page gives them, and
\* the empty text of the fallback (lines 672-684)
ExhibitionTexts ==
    {<<"6", ".", "5">>, <<"6", ".", "8">>, <<"7", ".", "0">>, <<>>}

\* the times 6.8, 6.5, 6.5, 7.0, 6.9, 6.6 of lanes 1 to 6
ExampleExhibition ==
    <<<<"6", ".", "8">>, <<"6", ".", "5">>, <<"6", ".", "5">>,
      <<"7", ".", "0">>, <<"6", ".", "9">>, <<"6", ".", "6">>>>

ClassTexts == {<<"A", "1">>, <<"A", "2">>, <<"B", "1">>, <<"B", "2">>}

\* a rate as the race page gives it, and a text that is no number
RateTexts == {<<"1", ".", "5", "0">>, <<"6", ".", "5", "5">>, <<"-">>}

\* one column and the texts it is given: the exhibition times, the classes,
\* the national win rates, the motor rates
VariedColumns ==
    ({"exhibition"} \X ([Lanes -> ExhibitionTexts] \cup {ExampleExhibition}))
    \cup ({"class"} \X [Lanes -> ClassTexts])
    \cup ({"win_national", "motor_place2"} \X [Lanes -> RateTexts])

(***************************************************************************)
(* The model files.  Venues are their ids (line 340); a lane group is       *)
(* "course_1" (lanes 1 to 5) or "course_6" (lane 6).                        *)
(***************************************************************************)
\* the keys of MODEL_PATHS, as venue ids
Registered == {1, 11, 9, 3, 18, 19, 22}

\* next(iter(MODEL_PATHS.values())): the first key
FirstVenue == 1

\* the venue buttons taken (of the 24 of lines 340-365): 1 and 11,
\* registered, and 2, not registered
VenueIds == {1, 2, 11}

ModelFile(lanes, ranks, frac) ==
    <<"w", "/", "w", "/", "w">> \o lanes \o <<"_", "7", "8", "9", "1", "0", "_">>
        \o ranks \o <<"w", "_", "0", "1", "2", "5", "_", "0", ".">> \o frac
        \o <<".", "txt">>

MODEL_PATHS(v, g) ==
    LET l == IF g = "course_1" THEN <<"1", "_", "5">> ELSE <<"6">>
        one == g = "course_1"
    IN  CASE v = 1  -> IF one THEN ModelFile(l, <<"5", "6">>, <<"6", "8">>)
                              ELSE ModelFile(l, <<"5", "6">>, <<"6", "4">>)
          [] v = 11 -> IF one THEN ModelFile(l, <<"4", "5", "6">>, <<"7", "9">>)
                              ELSE ModelFile(l, <<"5", "6">>, <<"6", "3">>)
          [] v = 9  -> IF one THEN ModelFile(l, <<"4", "5", "6">>, <<"7", "2">>)
                              ELSE ModelFile(l, <<"4", "5", "6">>, <<"8", "3">>)
          [] v = 3  -> IF one THEN ModelFile(l, <<"4", "5", "6">>, <<"8", "2">>)
                              ELSE ModelFile(l, <<"3", "4", "5", "6">>, <<"9", "5">>)
          [] v = 18 -> IF one THEN ModelFile(l, <<"5", "6">>, <<"6", "8">>)
                              ELSE ModelFile(l, <<"5", "6">>, <<"7", "4">>)
          [] v = 19 -> IF one THEN ModelFile(l, <<"5", "6">>, <<"8">>)
                              ELSE ModelFile(l, <<"5", "6">>, <<"5", "3">>)
          [] v = 22 -> IF one THEN ModelFile(l, <<"4", "5", "6">>, <<"7", "6">>)
                              ELSE ModelFile(l, <<"4", "5", "6">>, <<"8", "2">>)

(***************************************************************************)
(* The run of the script from line 701 on: derivation, schema alignment,    *)
(* the two boosters, reassembly.                                            *)
(***************************************************************************)
InSeq(x, s) == \E i \in 1..Len(s) : s[i] = x

RECURSIVE Pow10(_)
Pow10(k) == IF k = 0 THEN 1 ELSE 10 * Pow10(k - 1)

\* a flag that is also 1 for a score equal to the threshold
binarize_AtLeast(score, threshold) ==
    IF score * Pow10(threshold[2]) >= threshold[1] * 100 THEN 1 ELSE 0

\* (pred > threshold).astype(int), the score in hundredths
binarize(score, threshold) ==
    IF score * Pow10(threshold[2]) > threshold[1] * 100 THEN 1 ELSE 0

\* lines 753-768: the columns of test_df after the missing ones are added
\* (at the end, as NaN) and the extra ones are dropped
align(columns, required_columns) ==
    LET Missing(c) == ~InSeq(c, columns)
        Kept(c)    == InSeq(c, required_columns)
        missing_columns == SelectSeq(required_columns, Missing)
    IN  [columns |-> SelectSeq(columns \o missing_columns, Kept),
         missing |-> missing_columns,
         fill    |-> NaN]

\* what a booster was given
NotScored == [scored |-> FALSE, columns |-> <<>>, lanes |-> <<>>,
              declared |-> <<>>, threshold |-> <<0, 0>>,
              pred |-> <<>>, binary |-> <<>>]

\* a run that does not reach line 736
NoRun(status) ==
    [status |-> status, derived |-> FALSE, schema_artifact |-> <<>>,
     loaded |-> {}, aligned |-> [columns |-> <<>>, missing |-> <<>>, fill |-> NaN],
     course_1 |-> NotScored, course_6 |-> NotScored,
     signals |-> {}, result |-> <<>>]

\* a row of the table shown: its lane, the frame it comes from, its scores
ShownRow(course, part, m1, i, m6, j) ==
    [course  |-> course,
     part    |-> part,
     pred1   |-> IF m1.scored /\ i > 0 THEN m1.pred[i] ELSE NaN,
     binary1 |-> IF m1.scored /\ i > 0 THEN m1.binary[i] ELSE NaN,
     pred6   |-> IF m6.scored /\ j > 0 THEN m6.pred[j] ELSE NaN,
     binary6 |-> IF m6.scored /\ j > 0 THEN m6.binary[j] ELSE NaN]

\* lines 797-806 and 814-823: one booster on the rows it is given
RunBooster(path, declared, score, columns, rows) ==
    LET t == extract_threshold_from_filename(path).threshold
        p == [i \in 1..Len(rows) |-> score[rows[i].course \div 100]]
    IN  [scored    |-> TRUE,
         columns   |-> columns,
         lanes     |-> [i \in 1..Len(rows) |-> rows[i].course \div 100],
         declared  |-> declared,
         threshold |-> t,
         pred      |-> p,
         binary    |-> [i \in 1..Len(rows) |-> binarize(p[i], t)]]

\* the rows the booster of lanes 1 to 5 is given: test_df
RowsForCourse1(rows) == rows

\* the rows the booster of lane 6 is given: test_df[test_df['course'] == 6]
RowsForCourse6(rows) == LET Six(r) == r.course = 600 IN SelectSeq(rows, Six)

\* line 870: pd.concat([test_df[0:5], test_df6])
Reassemble(rows, rows6, m1, m6) ==
    [i \in 1..(IF Len(rows) < 5 THEN Len(rows) ELSE 5) |->
        ShownRow(rows[i].course \div 100, "test_df", m1, i, m6, 0)]
    \o [j \in 1..Len(rows6) |->
        ShownRow(rows6[j].course \div 100, "test_df6", m1, 0, m6, j)]

\* lines 738-751: the feature names of the booster of lanes 1 to 5, or the
\* columns of the table when its file is not there
required_columns(store, columns) ==
    IF store.present1 THEN store.features1 ELSE columns

\* lines 739-742: the venue whose booster is read for its feature names
schema_venue(venue) ==
    IF venue # 0 /\ venue \in Registered THEN venue ELSE FirstVenue

\* no booster was tried
NoTry == [course_1 |-> NotScored, course_6 |-> NotScored, loaded |-> {},
          failed |-> FALSE]

\* lines 793-851: the two boosters in one try block.  A file that is not
\* there, or a table that has not as many columns as the booster has
\* features, raises, and the rest of the block is skipped.
TryBlock(rows, rows6, columns, venue, store) ==
    LET try1 == rows # <<>> /\ columns # <<>>
        ok1  == try1 /\ store.present1 /\ Len(columns) = Len(store.features1)
        try6 == (try1 => ok1) /\ rows6 # <<>>
        ok6  == try6 /\ store.present6 /\ Len(columns) = Len(store.features6)
    IN  [course_1 |-> IF ok1
                      THEN RunBooster(MODEL_PATHS(venue, "course_1"),
                                      store.features1, store.score1, columns,
                                      RowsForCourse1(rows))
                      ELSE NotScored,
         course_6 |-> IF ok6
                      THEN RunBooster(MODEL_PATHS(venue, "course_6"),
                                      store.features6, store.score6, columns, rows6)
                      ELSE NotScored,
         loaded   |-> (IF try1 /\ store.present1
                       THEN {<<venue, "course_1">>} ELSE {})
                      \cup (IF try6 /\ store.present6
                            THEN {<<venue, "course_6">>} ELSE {}),
         failed   |-> (try1 /\ ~ok1) \/ (try6 /\ ~ok6)]

\* lines 852-975: the signals and the table shown
Shown(rows, rows6, a, t, venue, store) ==
    [status   |-> "done",
     derived  |-> TRUE,
     schema_artifact |->
         IF store.present1 THEN <<schema_venue(venue), "course_1">> ELSE <<>>,
     loaded   |-> t.loaded,
     aligned  |-> a,
     course_1 |-> t.course_1,
     course_6 |-> t.course_6,
     signals  |->
         (IF a.missing # <<>> THEN {"missing_columns"} ELSE {})
         \cup (IF venue # 0 /\ venue \in Registered
               THEN (IF t.failed THEN {"model_error"} ELSE {"model_loaded"})
               ELSE IF venue # 0 THEN {"unsupported_venue"}
               ELSE {"no_venue"}),
     result   |->
         IF InSeq("day", a.columns) /\ InSeq("round", a.columns)
         THEN Reassemble(rows, rows6, t.course_1, t.course_6)
         ELSE [i \in 1..Len(rows) |->
                  ShownRow(rows[i].course \div 100, "test_df",
                           t.course_1, i, t.course_6, 0)]]

\* lines 753-783 and on: the table is aligned; without the lane column line
\* 783 raises KeyError and the run ends there
Aligned(rows, a, venue, store) ==
    IF ~InSeq("course", a.columns)
    THEN [NoRun("key_error") EXCEPT
             !.derived = TRUE,
             !.schema_artifact =
                 IF store.present1 THEN <<schema_venue(venue), "course_1">>
                 ELSE <<>>,
             !.aligned = a]
    ELSE Shown(rows, RowsForCourse6(rows), a,
               IF venue # 0 /\ venue \in Registered
               THEN TryBlock(rows, RowsForCourse6(rows), a.columns, venue, store)
               ELSE NoTry,
               venue, store)

\* line 736 and on: the table is derived; prepare_df may raise
Derive(test_df, venue, store) ==
    IF test_df.raised THEN [NoRun("prepare_raised") EXCEPT !.derived = TRUE]
    ELSE Aligned(test_df.rows,
                 align(test_df.columns, required_columns(store, test_df.columns)),
                 venue, store)

\* lines 702-975
Pipeline(frame, venue, store) ==
    IF frame = <<>> THEN NoRun("no_data")
    ELSE Derive(prepare_df(frame), venue, store)

(***************************************************************************)
(* The model files on disk.  What the script reads of them: whether the     *)
(* file of each lane group is there, the feature names its booster          *)
(* declares, and the score the booster gives the row of each lane.  The    *)
(* files of every registered venue are taken to be alike in these.         *)
(***************************************************************************)
\* feature names a booster may declare: three columns of the table and one
\* the table does not have
FeaturePool == {"course", "day", "round", "wind"}

FeatureLists ==
    {f \in UNION {[1..n -> FeaturePool] : n \in 0..Cardinality(FeaturePool)} :
        \A i, j \in 1..Len(f) : f[i] = f[j] => i = j}

\* scores in hundredths, around the thresholds 0.64 and 0.68 of venue 1
ScoreValues == {64, 68, 69}

FlatScore == [l \in Lanes |-> 68]

Store(p1, p6, f1, f6, s1, s6) ==
    [present1  |-> p1,
     present6  |-> p6,
     features1 |-> IF p1 THEN f1 ELSE <<>>,
     features6 |-> IF p6 THEN f6 ELSE <<>>,
     score1    |-> IF p1 THEN s1 ELSE FlatScore,
     score6    |-> IF p6 THEN s6 ELSE FlatScore]

\* boosters that declare any features, with one score for every row
SchemaStores ==
    {Store(p1, p6, f1, f6, FlatScore, FlatScore) :
        p1 \in BOOLEAN, p6 \in BOOLEAN, f1 \in FeatureLists, f6 \in FeatureLists}

\* boosters that declare the columns of the table, with any scores
\* the scores of a booster: one for lane 1, one for lanes 2 to 5, one for
\* lane 6
ScoreMaps ==
    {[l \in Lanes |-> IF l = 1 THEN a ELSE IF l = 6 THEN c ELSE b] :
        a \in ScoreValues, b \in ScoreValues, c \in ScoreValues}

ScoreStores ==
    {Store(p1, p6, PreparedColumns, PreparedColumns, s1, s6) :
        p1 \in BOOLEAN, p6 \in BOOLEAN, s1 \in ScoreMaps, s6 \in ScoreMaps}

Stores == SchemaStores \cup ScoreStores

\* the stores of the session specification
SessionStores ==
    {Store(p1, p6, f, f, FlatScore, FlatScore) :
        p1 \in BOOLEAN, p6 \in BOOLEAN,
        f \in {PreparedColumns, <<"course", "wind">>}}

(***************************************************************************)
(* The fetch handler (lines 464-699).                                      *)
(***************************************************************************)
Days == 1..MaxDay

\* what the fetch builds for a race that is found: the six rows, and, when
\* the before-information page gives nothing, blank exhibition and tilt
\* (lines 672-684); the page may also give an age cell that is no number
FetchedTables(d, r) ==
    {GoodTable(d, r),
     [l \in Lanes |-> [GoodRow(l, d, r) EXCEPT !.exhibition = <<>>, !.tilt = <<>>]],
     [GoodTable(d, r) EXCEPT ![1] = [GoodRow(1, d, r) EXCEPT !.age = <<"w">>]]}

\* the frame stored at line 699: without the reset of line 506
fetch_store_NoReset(old, outcome, new_df) ==
    IF outcome = "found" THEN new_df ELSE old

\* the frame stored at line 699: new_df concatenated to the stored frame
fetch_store_Accumulate(old, outcome, new_df) ==
    IF outcome = "found" THEN old \o new_df ELSE old

\* the frame stored at line 699: df is reset at line 506, and new_df is
\* concatenated to it when the race page is found
fetch_store(old, outcome, new_df) ==
    IF outcome = "found" THEN <<>> \o new_df ELSE <<>>

NotCalled == [threshold |-> <<0, 0>>, warning |-> FALSE, called |-> FALSE]

NotPrepared == [called |-> FALSE, raised |-> FALSE, columns |-> <<>>, rows |-> <<>>]

FunctionsIdle ==
    /\ file_path = <<>>
    /\ threshold_out = NotCalled
    /\ raw = <<>>
    /\ prepared = NotPrepared

NoStore == Store(FALSE, FALSE, <<>>, <<>>, FlatScore, FlatScore)

SessionIdle ==
    /\ selected_venue = 0
    /\ selected_round = 0
    /\ df = <<>>
    /\ artifacts = NoStore
    /\ run = NoRun("not_run")
    /\ last_fetch = "none"
    /\ fetched_venue = 0
    /\ had_data = FALSE

\* lines 368-381
Init ==
    /\ FunctionsIdle
    /\ selected_venue = 0
    /\ selected_round = 0
    /\ df = <<>>
    /\ artifacts \in SessionStores
    /\ run = NoRun("not_run")
    /\ last_fetch = "none"
    /\ fetched_venue = 0
    /\ had_data = FALSE

\* lines 424-427: a venue button, then the rerun of the script
ClickVenue(v) ==
    /\ selected_venue' = v
    /\ run' = Pipeline(df, v, artifacts)
    /\ UNCHANGED <<selected_round, df, artifacts, last_fetch, fetched_venue,
                   had_data, functionVars>>

\* lines 449-451: a round button, then the rerun of the script
ClickRound(r) ==
    /\ selected_round' = r
    /\ run' = Pipeline(df, selected_venue, artifacts)
    /\ UNCHANGED <<selected_venue, df, artifacts, last_fetch, fetched_venue,
                   had_data, functionVars>>

\* a fetch button that is never disabled
fetch_enabled_Always(venue, round) == TRUE

\* line 465: disabled = selected_venue_id is None or selected_round is None
fetch_enabled(venue, round) == venue # 0 /\ round # 0

\* lines 464-699, then the rest of the same run.  The request or the parsing
\* of the page may raise: the run ends there and nothing is stored.
ClickFetch ==
    /\ fetch_enabled(selected_venue, selected_round)
    /\ \/ \E d \in Days : \E new_df \in FetchedTables(d, selected_round) :
             /\ last_fetch' = "found"
             /\ df' = fetch_store(df, "found", new_df)
             /\ run' = Pipeline(df', selected_venue, artifacts)
             /\ fetched_venue' = selected_venue
             /\ had_data' = TRUE
       \/ /\ last_fetch' = "no_data"
          /\ df' = fetch_store(df, "no_data", <<>>)
          /\ run' = Pipeline(df', selected_venue, artifacts)
          /\ fetched_venue' = 0
          /\ UNCHANGED had_data
       \/ /\ last_fetch' = "raised"
          /\ run' = NoRun("fetch_raised")
          /\ UNCHANGED <<df, fetched_venue, had_data>>
    /\ UNCHANGED <<selected_venue, selected_round, artifacts, functionVars>>

Next ==
    \/ \E v \in VenueIds : ClickVenue(v)
    \/ \E r \in 1..MaxRound : ClickRound(r)
    \/ ClickFetch

Spec == Init /\ [][Next]_vars

(***************************************************************************)
(* Specification of the run of the script alone: it is run once on every    *)
(* session state a fetch can leave, with every store of Stores.            *)
(***************************************************************************)
InitDispatch ==
    /\ FunctionsIdle
    /\ run = NoRun("not_run")
    /\ \/ /\ df = <<>>
          /\ selected_venue \in {0} \cup VenueIds
          /\ selected_round \in 0..MaxRound
          /\ artifacts \in SessionStores
          /\ last_fetch \in {"none", "no_data"}
          /\ fetched_venue = 0
          /\ had_data = FALSE
       \/ /\ selected_venue \in VenueIds
          /\ selected_round \in 1..MaxRound
          /\ \/ df = GoodTable(MaxDay, selected_round) /\ artifacts \in Stores
             \/ \E d \in Days :
                   df \in FetchedTables(d, selected_round) /\ artifacts \in SessionStores
          /\ last_fetch = "found"
          /\ fetched_venue = selected_venue
          /\ had_data = TRUE

\* lines 701-975
RunScript ==
    /\ run.status = "not_run"
    /\ run' = Pipeline(df, selected_venue, artifacts)
    /\ UNCHANGED <<selected_venue, selected_round, df, artifacts, last_fetch,
                   fetched_venue, had_data, functionVars>>

NextDispatch == RunScript

SpecDispatch == InitDispatch /\ [][NextDispatch]_vars

(***************************************************************************)
(* Specification of prepare_df alone: it is given the good table with at    *)
(* most MaxBadCells cells spoiled, and the good table with one column of   *)
(* VariedColumns.                                                          *)
(***************************************************************************)
InitPrepare ==
    /\ \/ \E cs \in SpoiledCells(MaxBadCells) : raw = Spoil(GoodTable(3, 1), cs)
       \/ \E v \in VariedColumns : raw = SetColumn(GoodTable(3, 1), v[1], v[2])
    /\ prepared = NotPrepared
    /\ file_path = <<>>
    /\ threshold_out = NotCalled
    /\ SessionIdle

PrepareDf ==
    /\ ~prepared.called
    /\ prepared' = [called |-> TRUE] @@ prepare_df(raw)
    /\ UNCHANGED <<raw, file_path, threshold_out, sessionVars>>

NextPrepare == PrepareDf

SpecPrepare == InitPrepare /\ [][NextPrepare]_vars

(***************************************************************************)
(* Specification of the threshold extraction alone: every path of at most  *)
(* MaxNameLen tokens over PathTokens is given to the function.             *)
(***************************************************************************)
PathTokens == {"_", "5", ".", "txt", "w", "/", "\n"}

Paths == UNION {[1..n -> PathTokens] : n \in 0..MaxNameLen}

InitThreshold ==
    /\ file_path \in Paths
    /\ threshold_out = NotCalled
    /\ raw = <<>>
    /\ prepared = NotPrepared
    /\ SessionIdle

ExtractThreshold ==
    /\ ~threshold_out.called
    /\ threshold_out' =
          [threshold |-> extract_threshold_from_filename(file_path).threshold,
           warning   |-> extract_threshold_from_filename(file_path).warning,
           called    |-> TRUE]
    /\ UNCHANGED <<file_path, raw, prepared, sessionVars>>

NextThreshold == ExtractThreshold

SpecThreshold == InitThreshold /\ [][NextThreshold]_vars

(***************************************************************************)
(* Claims about the run of the script (SpecDispatch).                      *)
(***************************************************************************)
Supported == selected_venue \in Registered

SeqSet(s) == {s[i] : i \in 1..Len(s)}

Boosters == {run.course_1, run.course_6}

(***************************************************************************)
(* Claim C1.                                                               *)
(***************************************************************************)
\* C1: for a table of the six lanes and a supported venue, the booster of
\* lanes 1 to 5 is invoked on exactly the five rows whose lane is not 6 and
\* the booster of lane 6 on exactly the row whose lane is 6.
C1_LaneRouting ==
    (Supported /\ run.status = "done") =>
        /\ run.course_1.scored => run.course_1.lanes = <<1, 2, 3, 4, 5>>
        /\ run.course_6.scored => run.course_6.lanes = <<6>>

\* both boosters were invoked in one run, and the row of lane 6 was given to
\* the booster of lanes 1 to 5
C1_Witness ==
    /\ Supported
    /\ run.course_1.scored
    /\ run.course_6.scored
    /\ run.course_6.lanes = <<6>>
    /\ \E i \in 1..Len(run.course_1.lanes) : run.course_1.lanes[i] = 6

(***************************************************************************)
(* Claim C2.                                                               *)
(***************************************************************************)
\* the file of the other lane group is there and its booster takes the
\* aligned table
Usable(present, features) ==
    present /\ Len(features) = Len(run.aligned.columns)

\* C2: when the file of one lane group is missing and the booster of the
\* other is available, an error is signalled, the failing lane group is not
\* scored and the other lane group is still scored, in both directions.
C2_OtherGroupStillScored ==
    (Supported /\ run.status = "done") =>
        /\ (~artifacts.present1 /\ Usable(artifacts.present6, artifacts.features6)) =>
              /\ "model_error" \in run.signals
              /\ ~run.course_1.scored
              /\ run.course_6.scored
        /\ (~artifacts.present6 /\ Usable(artifacts.present1, artifacts.features1)) =>
              /\ "model_error" \in run.signals
              /\ ~run.course_6.scored
              /\ run.course_1.scored

\* the direction that the code does serve: the file of lane 6 is missing and
\* lanes 1 to 5 are scored and shown
C2_Witness ==
    /\ Supported
    /\ ~artifacts.present6
    /\ run.course_1.scored
    /\ ~run.course_6.scored
    /\ "model_error" \in run.signals
    /\ \E i \in 1..Len(run.result) : run.result[i].binary1 # NaN

\* the other direction: the file of lanes 1 to 5 is missing, the one of lane 6
\* is there, and the run ends with the error and no score of lane 6
C2_Lane6Skipped ==
    /\ Supported
    /\ run.status = "done"
    /\ ~artifacts.present1
    /\ Usable(artifacts.present6, artifacts.features6)
    /\ "model_error" \in run.signals
    /\ ~run.course_6.scored

(***************************************************************************)
(* Claim C3.                                                               *)
(***************************************************************************)
\* the run went past the derivation for a venue that is not registered
UnsupportedRun ==
    /\ selected_venue # 0
    /\ ~Supported
    /\ run.status \in {"done", "key_error"}

\* C3: for a venue that is not registered the warning is issued, neither
\* lane group is scored and no model file of any venue is used in the run.
C3_NoOtherVenueArtifact ==
    UnsupportedRun =>
        /\ "unsupported_venue" \in run.signals
        /\ ~run.course_1.scored
        /\ ~run.course_6.scored
        /\ run.loaded = {}
        /\ run.schema_artifact = <<>>

\* the warning was issued and nothing scored, and the columns of the table
\* were aligned to the booster of the first registered venue
C3_Witness ==
    /\ UnsupportedRun
    /\ "unsupported_venue" \in run.signals
    /\ ~run.course_1.scored
    /\ ~run.course_6.scored
    /\ run.schema_artifact = <<FirstVenue, "course_1">>
    /\ run.aligned.columns = artifacts.features1

(***************************************************************************)
(* Claim C4.                                                               *)
(***************************************************************************)
\* C4: the columns given to each booster that scores are exactly the feature
\* names that this booster declares, the added ones holding NaN.
C4_ColumnsAreDeclared ==
    \A m \in Boosters :
        m.scored =>
            /\ SeqSet(m.columns) = SeqSet(m.declared)
            /\ run.aligned.fill = NaN

\* the booster of lane 6 scored columns that are those the booster of lanes
\* 1 to 5 declares, and not its own
C4_Witness ==
    /\ run.course_6.scored
    /\ SeqSet(run.course_6.columns) = SeqSet(artifacts.features1)
    /\ SeqSet(run.course_6.columns) # SeqSet(run.course_6.declared)

(***************************************************************************)
(* Claim C5.                                                               *)
(***************************************************************************)
\* C5: the columns given to a booster are in the order of the feature names
\* it declares.
C5_DeclaredOrder ==
    \A m \in Boosters : m.scored => m.columns = m.declared

\* the booster was given exactly the columns it declares, a missing one
\* among them, in another order: the missing column comes last
C5_Witness ==
    /\ run.course_1.scored
    /\ SeqSet(run.course_1.columns) = SeqSet(run.course_1.declared)
    /\ run.course_1.declared = <<"course", "wind", "day">>
    /\ run.course_1.columns = <<"course", "day", "wind">>

(***************************************************************************)
(* Claim C6.  The file name read from its end: a line feed that ends it    *)
(* set aside, then the extension, then a run of digits, a dot, a run of    *)
(* digits and an underscore.                                               *)
(***************************************************************************)
RECURSIVE DigitSuffixLen(_)
DigitSuffixLen(s) ==
    IF s # <<>> /\ IsDigit(s[Len(s)])
    THEN 1 + DigitSuffixLen(SubSeq(s, 1, Len(s) - 1))
    ELSE 0

\* stem = ... "_" digits "." digits: <<TRUE, that number>>, else <<FALSE, 0.5>>
TrailingNumber(stem) ==
    LET f    == DigitSuffixLen(stem)
        rest == SubSeq(stem, 1, Len(stem) - f - 1)
        i    == DigitSuffixLen(rest)
    IN  IF /\ f > 0
           /\ Len(stem) - f >= 1
           /\ stem[Len(stem) - f] = "."
           /\ i > 0
           /\ Len(rest) - i >= 1
           /\ rest[Len(rest) - i] = "_"
        THEN <<TRUE, ParseFloat(SubSeq(rest, Len(rest) - i + 1, Len(rest)),
                                SubSeq(stem, Len(stem) - f + 1, Len(stem)))>>
        ELSE <<FALSE, DefaultThreshold>>

\* the file name ends with _<digits>.<digits> before ".txt" (and at most one
\* line feed after it)
NumberBeforeTxt(name) ==
    LET core == IF name # <<>> /\ name[Len(name)] = "\n"
                THEN SubSeq(name, 1, Len(name) - 1) ELSE name
    IN  IF Len(core) >= 2 /\ core[Len(core)] = "txt" /\ core[Len(core) - 1] = "."
        THEN TrailingNumber(SubSeq(core, 1, Len(core) - 2))
        ELSE <<FALSE, DefaultThreshold>>

\* the file name ends with _<digits>.<digits> before its extension, whatever
\* the extension is (a dot and a run of letters that end the name)
NumberBeforeExtension(name) ==
    LET core == IF name # <<>> /\ name[Len(name)] = "\n"
                THEN SubSeq(name, 1, Len(name) - 1) ELSE name
    IN  IF /\ Len(core) >= 2
           /\ core[Len(core)] \in {"txt", "w"}
           /\ core[Len(core) - 1] = "."
        THEN TrailingNumber(SubSeq(core, 1, Len(core) - 2))
        ELSE <<FALSE, DefaultThreshold>>

\* C6 as stated: the number before the file extension, whatever the extension,
\* is returned, and every other file name gives 0.5 with a warning.
C6_AnyExtension ==
    threshold_out.called =>
        LET n == NumberBeforeExtension(basename(file_path))
        IN  /\ threshold_out.threshold = n[2]
            /\ threshold_out.warning = ~n[1]

\* C6 as amended: a file name ending with _<digits>.<digits>.txt gives exactly
\* that number and no warning; every other file name gives 0.5 and a warning.
C6_TxtExtension ==
    threshold_out.called =>
        LET n == NumberBeforeTxt(basename(file_path))
        IN  /\ threshold_out.threshold = n[2]
            /\ threshold_out.warning = ~n[1]

\* a number other than the default was read from a file name
C6_Witness ==
    /\ threshold_out.called
    /\ ~threshold_out.warning
    /\ threshold_out.threshold = <<55, 1>>

\* the default was given for a name with a number before another extension
C6_WitnessDefault ==
    /\ threshold_out.called
    /\ threshold_out.warning
    /\ threshold_out.threshold = DefaultThreshold
    /\ NumberBeforeExtension(basename(file_path))[1]

(***************************************************************************)
(* Claim C7.                                                               *)
(***************************************************************************)
\* the number in the name of the model file of lane group g of venue v
ResolvedThreshold(v, g) == NumberBeforeTxt(basename(MODEL_PATHS(v, g)))[2]

\* a score, in hundredths, is strictly greater than the threshold n / 10^k
Above(score, t) == score * Pow10(t[2]) > t[1] * 100

Equal(score, t) == score * Pow10(t[2]) = t[1] * 100

StrictFlags(m, g) ==
    LET t == ResolvedThreshold(selected_venue, g)
    IN  \A i \in 1..Len(m.pred) :
            /\ m.binary[i] \in {0, 1}
            /\ m.binary[i] = 1 <=> Above(m.pred[i], t)
            /\ Equal(m.pred[i], t) => m.binary[i] = 0

\* C7: the flag of every scored row is 1 exactly when its score is strictly
\* greater than the threshold in the name of the model file of its own lane
\* group; a score equal to the threshold gives 0.
C7_StrictThreshold ==
    /\ run.course_1.scored => StrictFlags(run.course_1, "course_1")
    /\ run.course_6.scored => StrictFlags(run.course_6, "course_6")

\* venue 1, thresholds 0.68 and 0.64: a row of lanes 1 to 5 scores 0.68 and
\* is flagged 0, another scores 0.69 and is flagged 1, and the row of lane 6
\* scores 0.68 and is flagged 1
C7_Witness ==
    /\ run.course_1.scored
    /\ run.course_6.scored
    /\ \E i \in 1..Len(run.course_1.pred) :
          /\ Equal(run.course_1.pred[i], ResolvedThreshold(selected_venue, "course_1"))
          /\ run.course_1.binary[i] = 0
    /\ \E i \in 1..Len(run.course_1.pred) :
          /\ run.course_1.pred[i] = 69
          /\ run.course_1.binary[i] = 1
    /\ \E i \in 1..Len(run.course_6.pred) :
          /\ run.course_6.pred[i] = 68
          /\ run.course_6.binary[i] = 1

(***************************************************************************)
(* Claim C8.                                                               *)
(***************************************************************************)
\* C8: for a race of the six lanes the table shown is the rows of lanes 1 to
\* 5 of the frame of the first booster, then the row of lane 6 of the frame
\* of the second: each lane once, in order, whatever columns the alignment
\* kept or dropped.
C8_SixRowsReassembled ==
    (df # <<>> /\ run.status \in {"done", "key_error"}) =>
        /\ run.status = "done"
        /\ Len(run.result) = 6
        /\ \A i \in 1..Len(run.result) :
              /\ run.result[i].course = i
              /\ run.result[i].part = IF i = 6 THEN "test_df6" ELSE "test_df"

\* the alignment dropped the day or the round: the row of lane 6 that is
\* shown is the one of the frame of lanes 1 to 5, with the flag of that
\* booster and none of the booster of lane 6, which did score
C8_Witness ==
    /\ run.status = "done"
    /\ ~(InSeq("day", run.aligned.columns) /\ InSeq("round", run.aligned.columns))
    /\ run.course_6.scored
    /\ Len(run.result) = 6
    /\ run.result[6].part = "test_df"
    /\ run.result[6].binary1 # NaN
    /\ run.result[6].binary6 = NaN

\* the alignment kept day and round and dropped other columns: the six rows
\* are shown as the claim says
C8_Reassembled ==
    /\ run.status = "done"
    /\ run.aligned.columns = <<"course", "day", "round">>
    /\ Len(run.result) = 6
    /\ run.result[6].part = "test_df6"

\* the alignment dropped the lane column: the run ends at line 783
C8_KeyError ==
    /\ run.status = "key_error"
    /\ ~InSeq("course", run.aligned.columns)

(***************************************************************************)
(* Claim C9 (Spec).                                                        *)
(***************************************************************************)
\* C9: whenever the most recent fetch found no race data, the stored table
\* is empty and the run derives nothing, loads no model, shows no prediction
\* and raises nothing, even after an earlier fetch that had found a race.
C9_NoDataShortCircuits ==
    last_fetch = "no_data" =>
        /\ df = <<>>
        /\ run.status = "no_data"
        /\ ~run.derived
        /\ run.schema_artifact = <<>>
        /\ run.loaded = {}
        /\ ~run.course_1.scored
        /\ ~run.course_6.scored
        /\ run.result = <<>>

\* a fetch found no race data after an earlier fetch had found a race, for a
\* registered venue whose model files are there
C9_Witness ==
    /\ last_fetch = "no_data"
    /\ had_data
    /\ Supported
    /\ artifacts.present1
    /\ artifacts.present6
    /\ run.status = "no_data"

(***************************************************************************)
(* Claim C10.                                                              *)
(***************************************************************************)
\* the text of field f cannot be read as a number
Unparsable(f, t) ==
    CASE f = "age"   -> ParseDecimal(strip(SubSeq(t, 1, IF Len(t) < 2 THEN Len(t) ELSE 2))) = NaN
      [] f = "class" -> t \notin {<<"A", "1">>, <<"A", "2">>, <<"B", "1">>, <<"B", "2">>}
      [] f = "F"     -> \A i \in 1..Len(t) : ~IsDigit(t[i])
      [] f = "weight" -> ParseDecimal(strip(RemoveToken(t, "/"))) = NaN
      [] f \in rate_columns ->
             ParseDecimal(strip(RemoveToken(RemoveToken(t, "%"), " "))) = NaN
      [] OTHER       -> ParseDecimal(strip(t)) = NaN

\* the value of field f in a row of the returned table
Derived(row, f) ==
    IF f \in rate_columns THEN row.rates[f]
    ELSE CASE f = "age"        -> row.age
           [] f = "weight"     -> row.weight
           [] f = "class"      -> row.class_rank
           [] f = "F"          -> row.F
           [] f = "mean_st"    -> row.mean_st
           [] f = "motor_no"   -> row.motor_no
           [] f = "boat_no"    -> row.boat_no
           [] f = "course"     -> row.course
           [] f = "exhibition" -> row.exhibition
           [] f = "tilt"       -> row.tilt

UnparsableGivesZero(fields) ==
    \A l \in 1..Len(raw) : \A f \in fields :
        Unparsable(f, Field(raw[l], f)) => Derived(prepared.rows[l], f) = 0

\* C10: prepare_df never raises on an unparsable value, and every raw numeric
\* field that cannot be parsed as a number is 0 in the returned table.
C10_NeverFails ==
    prepared.called =>
        /\ ~prepared.raised
        /\ UnparsableGivesZero(TextFields)

\* what the code does: it raises exactly when an age cell is unparsable, and
\* every other unparsable field is 0 in the table it returns otherwise
C10_AllButAge ==
    prepared.called =>
        /\ prepared.raised = (\E l \in 1..Len(raw) : Unparsable("age", raw[l].age))
        /\ ~prepared.raised => UnparsableGivesZero(TextFields)

\* prepare_df returned a table for a raw table with an unparsable cell
C10_Witness ==
    /\ prepared.called
    /\ ~prepared.raised
    /\ \E l \in 1..Len(raw) : \E f \in TextFields : Unparsable(f, Field(raw[l], f))

(***************************************************************************)
(* Claim C11 (SpecPrepare).                                                *)
(***************************************************************************)
\* the columns of a row of the returned table
RowColumns(row) == (DOMAIN row \ {"rates"}) \cup rate_columns

\* the value of column c of a row of the returned table
Cell(row, c) == IF c \in rate_columns THEN row.rates[c] ELSE row[c]

\* prepare_df returned a table
Returned == prepared.called /\ ~prepared.raised

\* no cell of the returned table is missing, and every cell is a number
NoMissingCell ==
    \A l \in 1..Len(prepared.rows) :
        /\ RowColumns(prepared.rows[l]) = SeqSet(PreparedColumns)
        /\ \A c \in RowColumns(prepared.rows[l]) :
              /\ Cell(prepared.rows[l], c) \in Int
              /\ Cell(prepared.rows[l], c) # NaN

\* the raw fields other than the age, whose unparsable text makes prepare_df
\* raise
CoercedFields == TextFields \ {"age"}

\* the derived columns of a row that the code computes from raw field f of
\* the same row
ComputedFrom(f) ==
    CASE f = "mean_st"  -> {"st_stability", "st_win", "weight_st"}
      [] f = "weight"   -> {"weight_st"}
      [] f = "class"    -> {"class_rank", "class_power"}
      [] f = "course"   -> {"inner_advantage", "course_inverse", "course_fit",
                            "course_exhibition", "tilt_course"}
      [] f = "exhibition" -> {"exhibition_mean_diff", "exhibition_rank",
                              "exhibition_fastest_diff", "course_exhibition",
                              "exhibition_tilt"}
      [] f = "tilt"     -> {"tilt_plus", "tilt_cat", "exhibition_tilt", "tilt_course"}
      [] f = "win_national" -> {"win_diff", "win_total", "overall_score", "st_win"}
      [] f = "win_local"    -> {"win_diff", "win_total", "overall_score", "course_fit"}
      [] f = "place2_national" -> {"place2_diff", "place_stability"}
      [] f = "place3_national" -> {"place3_diff", "place_stability"}
      [] f = "place2_local" -> {"place2_diff"}
      [] f = "place3_local" -> {"place3_diff"}
      [] f \in {"motor_place2", "motor_place3"} ->
             {"motor_power", "power_diff", "power_total", "overall_score"}
      [] f \in {"boat_place2", "boat_place3"} ->
             {"boat_power", "power_diff", "power_total", "overall_score"}
      [] OTHER -> {}

\* the derived columns that are undefined (NaN) when raw field f is missing
UndefinedWithout(f) ==
    CASE f = "mean_st" -> {"st_stability", "st_win", "weight_st"}
      [] f = "weight"  -> {"weight_st"}
      [] OTHER         -> {}

SixRows == Returned /\ Len(prepared.rows) = 6

Others(i) == (1..Len(prepared.rows)) \ {i}

\* the metric of row j of the returned table, in units
Metric(m, j) ==
    CASE m = "win_national"  -> prepared.rows[j].rates["win_national"] * Scale
      [] m = "motor_power"   -> prepared.rows[j].motor_power
      [] m = "overall_score" -> prepared.rows[j].overall_score
      [] m = "class_rank"    -> prepared.rows[j].class_rank * Scale

OpponentMean(m, i) ==
    CASE m = "win_national"  -> prepared.rows[i].win_national_opp_mean
      [] m = "motor_power"   -> prepared.rows[i].motor_power_opp_mean
      [] m = "overall_score" -> prepared.rows[i].overall_score_opp_mean
      [] m = "class_rank"    -> prepared.rows[i].opp_mean_class_rank

OpponentDelta(m, i) ==
    CASE m = "win_national"  -> prepared.rows[i].win_national_delta
      [] m = "motor_power"   -> prepared.rows[i].motor_power_delta
      [] m = "overall_score" -> prepared.rows[i].overall_score_delta

RECURSIVE MetricSum(_, _)
MetricSum(m, S) ==
    IF S = {} THEN 0
    ELSE LET j == CHOOSE x \in S : TRUE IN Metric(m, j) + MetricSum(m, S \ {j})

\* C12: in a race of six rows the opponent mean of a row is the mean of the
\* metric over the five other rows, and the delta is the metric of the row
\* minus that mean.
C12_OpponentMean ==
    SixRows =>
        \A i \in 1..Len(prepared.rows) :
            /\ \A m \in {"win_national", "motor_power", "overall_score", "class_rank"} :
                  /\ 5 * OpponentMean(m, i) = MetricSum(m, Others(i))
                  /\ MetricSum(m, 1..Len(prepared.rows))
                        = Metric(m, i) + 5 * OpponentMean(m, i)
            /\ \A m \in {"win_national", "motor_power", "overall_score"} :
                  OpponentDelta(m, i) = Metric(m, i) - OpponentMean(m, i)

\* a race whose national win rates differ, one of them missing: the rows
\* have different opponent means, none of them the mean of the race
C12_Witness ==
    /\ SixRows
    /\ \E i \in 1..6 : Unparsable("win_national", raw[i].rates["win_national"])
    /\ \E i, j \in 1..6 :
          /\ OpponentMean("win_national", i) # OpponentMean("win_national", j)
          /\ OpponentMean("win_national", i) # prepared.rows[i].win_national_mean_all
          /\ OpponentDelta("win_national", i) > 0
          /\ OpponentDelta("win_national", j) < 0

\* the starting exhibition of row j of the returned table
Exhibition(j) == prepared.rows[j].exhibition

Faster(i) == {j \in 1..Len(prepared.rows) : Exhibition(j) < Exhibition(i)}

Ranks == [i \in 1..Len(prepared.rows) |-> prepared.rows[i].exhibition_rank]

\* C13: the exhibition rank of a row is 1 plus the number of rows of its race
\* whose starting exhibition is strictly smaller; the times 6.8, 6.5, 6.5,
\* 7.0, 6.9, 6.6 give the ranks 4, 1, 1, 6, 5, 3.
C13_MinRank ==
    SixRows =>
        /\ \A i \in 1..Len(prepared.rows) :
              prepared.rows[i].exhibition_rank = One * (1 + Cardinality(Faster(i)))
        /\ [i \in 1..6 |-> raw[i].exhibition] = ExampleExhibition =>
              Ranks = <<4 * One, One, One, 6 * One, 5 * One, 3 * One>>

\* the race of the example, with its ranks
C13_Witness ==
    /\ SixRows
    /\ [i \in 1..6 |-> raw[i].exhibition] = ExampleExhibition
    /\ [i \in 1..6 |-> Exhibition(i)] = <<680, 650, 650, 700, 690, 660>>
    /\ Ranks = <<4 * One, One, One, 6 * One, 5 * One, 3 * One>>

RECURSIVE RankSum(_)
RankSum(S) ==
    IF S = {} THEN 0
    ELSE LET j == CHOOSE x \in S : TRUE
         IN  prepared.rows[j].class_rank + RankSum(S \ {j})

\* C16: in a race of six rows the class advantage of a row is 1 exactly when
\* six times its class rank is greater than the sum of the six class ranks;
\* when the six class ranks are equal no row is flagged.
C16_ClassAdvantage ==
    SixRows =>
        /\ \A i \in 1..6 :
              /\ prepared.rows[i].class_advantage \in {0, One}
              /\ prepared.rows[i].class_advantage = One
                    <=> 6 * prepared.rows[i].class_rank > RankSum(1..6)
        /\ (\A i, j \in 1..6 : prepared.rows[i].class_rank = prepared.rows[j].class_rank)
              => \A i \in 1..6 : prepared.rows[i].class_advantage = 0

\* six racers of class A2: no row is flagged
C16_Witness ==
    /\ SixRows
    /\ \A i \in 1..6 : raw[i].class = <<"A", "2">>
    /\ \A i \in 1..6 : prepared.rows[i].class_rank = 300
    /\ \A i \in 1..6 : prepared.rows[i].class_advantage = 0

\* one racer of class A1 among five of class A2: that row alone is flagged
C16_WitnessFlagged ==
    /\ SixRows
    /\ \E i \in 1..6 :
          /\ prepared.rows[i].class_advantage = One
          /\ \A j \in 1..6 \ {i} : prepared.rows[j].class_advantage = 0

MissingExhibition(i) == Unparsable("exhibition", raw[i].exhibition)

RECURSIVE ExhibitionSum(_)
ExhibitionSum(S) ==
    IF S = {} THEN 0
    ELSE LET j == CHOOSE x \in S : TRUE IN Exhibition(j) + ExhibitionSum(S \ {j})

\* C17: a missing or unparsable starting exhibition is 0 in the mean, the
\* minimum and the ranking of its race: the row has rank 1 when the other
\* values are positive, and when the six values are missing every rank is 1
\* and every deviation is 0.
C17_MissingExhibitionIsZero ==
    SixRows =>
        /\ \A i \in 1..6 :
              MissingExhibition(i) =>
                 /\ Exhibition(i) = 0
                 /\ (\A j \in 1..6 : ~MissingExhibition(j) => Exhibition(j) > 0)
                       => prepared.rows[i].exhibition_rank = One
                 /\ 6 * prepared.rows[i].exhibition_mean_diff
                       = -(ExhibitionSum(1..6) * Scale)
                 /\ prepared.rows[i].exhibition_fastest_diff
                       = -(Scale * Exhibition(CHOOSE j \in 1..6 :
                                                 \A k \in 1..6 : Exhibition(j) <= Exhibition(k)))
        /\ (\A i \in 1..6 : MissingExhibition(i)) =>
              \A i \in 1..6 :
                 /\ prepared.rows[i].exhibition_rank = One
                 /\ prepared.rows[i].exhibition_mean_diff = 0
                 /\ prepared.rows[i].exhibition_fastest_diff = 0
                 /\ prepared.rows[i].exhibition_course_mean_diff = 0

\* two rows without starting exhibition among four with one: both have rank
\* 1, the mean of the race counts them as 0
C17_Witness ==
    /\ SixRows
    /\ Cardinality({i \in 1..6 : MissingExhibition(i)}) = 2
    /\ \A i \in 1..6 :
          MissingExhibition(i) =>
             /\ prepared.rows[i].exhibition_rank = One
             /\ prepared.rows[i].exhibition_mean_diff < 0
    /\ \E i \in 1..6 : prepared.rows[i].exhibition_rank = 3 * One

\* the six rows without starting exhibition
C17_WitnessAllMissing ==
    /\ SixRows
    /\ \A i \in 1..6 : MissingExhibition(i)
    /\ \A i \in 1..6 : prepared.rows[i].exhibition_rank = One

(***************************************************************************)
(* Claims C14, C15 and C18 (Spec): the session.                            *)
(***************************************************************************)
\* the rows are one race: six rows of one day and round, lanes 1 to 6 in order
OneRaceGroup(rows) ==
    /\ Len(rows) = 6
    /\ \A l \in 1..6 : rows[l].course = LaneText(l)
    /\ \A i, j \in 1..6 : rows[i].day = rows[j].day /\ rows[i].round = rows[j].round

\* C14: after any sequence of venue selections, round selections and fetches
\* the stored raw table is empty or one race of six rows sharing one date and
\* round, with lanes 1 to 6 in order; rows of earlier fetches are not kept
\* with those of a later one.
C14_OneRaceGroup ==
    /\ df = <<>> \/ OneRaceGroup(df)
    /\ last_fetch = "found" => OneRaceGroup(df)
    /\ last_fetch = "no_data" => df = <<>>

\* a fetch that raised after a fetch that had found a race, and after the
\* venue was changed: the stored table is still the one race
C14_Witness ==
    /\ last_fetch = "raised"
    /\ had_data
    /\ fetched_venue # selected_venue
    /\ OneRaceGroup(df)

\* the run shows a prediction
ShowsPredictions == run.course_1.scored \/ run.course_6.scored

\* C15: in every run that shows predictions the model files used belong to
\* the venue for which the stored table was fetched.
C15_ModelsOfFetchedVenue ==
    ShowsPredictions => \A a \in run.loaded : a[1] = fetched_venue

\* the table fetched for venue 1 is scored with the two model files of venue
\* 11, selected after the fetch
C15_Witness ==
    /\ fetched_venue = 1
    /\ selected_venue = 11
    /\ df # <<>>
    /\ run.course_1.scored
    /\ run.course_6.scored
    /\ run.loaded = {<<11, "course_1">>, <<11, "course_6">>}
    /\ run.course_1.threshold = extract_threshold_from_filename(MODEL_PATHS(11, "course_1")).threshold
    /\ run.course_1.threshold # extract_threshold_from_filename(MODEL_PATHS(1, "course_1")).threshold

\* a fetch has been triggered
FetchTriggered == last_fetch # "none"

\* C18: a fetch is triggered only while a venue and a round are selected, and
\* a selection once made is never cleared: a stored table that is not empty
\* implies that a venue and a round are selected.
C18_SelectionBeforeFetch ==
    /\ [](df # <<>> \/ FetchTriggered => selected_venue # 0 /\ selected_round # 0)
    /\ [][/\ selected_venue # 0 => selected_venue' # 0
          /\ selected_round # 0 => selected_round' # 0
          /\ (df' # df \/ last_fetch' # last_fetch)
                => /\ selected_venue # 0 /\ selected_round # 0
                   /\ UNCHANGED <<selected_venue, selected_round>>]_vars

\* a table is stored, and the venue selected is no longer the one of the fetch
C18_Witness ==
    /\ df # <<>>
    /\ last_fetch = "found"
    /\ selected_venue # 0
    /\ selected_round # 0
    /\ selected_venue # fetched_venue

====
